---- MODULE Spec2Model ----
(***************************************************************************)
(* Model of the probe-rs CLI bootstrap (probe-rs/src/bin/probe-rs/main.rs):*)
(* multicall dispatch, UTC offset capture, log location resolution, log    *)
(* rotation, sink installation, subcommand dispatch and flash format       *)
(* resolution.                                                             *)
(***************************************************************************)
EXTENDS Integers, Sequences, FiniteSets, TLC

(***************************************************************************)
(* Bounds of the model.                                                    *)
(***************************************************************************)
\* longest argument vector drawn for multicall_check
MaxArgs == 3
\* most .log files initially present in the default log directory
MaxFiles == 25
\* most .log files whose creation time cannot be read
MaxUnreadable == 1
\* number of process invocations after the first one
MaxRuns == 1

(***************************************************************************)
(* Program constants.                                                      *)
(***************************************************************************)
MAX_LOG_FILES == 20

None == <<"None">>

Some(v) == <<"Some", v>>

(***************************************************************************)
(* OsString / Path.  An argument is a record                               *)
(*   dirs : the directory components in front of the last component        *)
(*   name : the last component, split at its '.' characters                *)
(* so "/usr/bin/cargo-flash.exe" is dirs <<"/", "usr", "bin">> and name    *)
(* <<"cargo-flash", "exe">>.  The segment Invalid stands for bytes that    *)
(* are not valid UTF-8 and DotDot is the component "..".                   *)
(***************************************************************************)
Invalid == "<non-utf8>"

DotDot == <<"", "", "">>

Tok(dirs, name) == [dirs |-> dirs, name |-> name]

\* OsStr::to_str on a piece given as dot separated segments
to_str(segs) ==
    IF \E i \in 1..Len(segs) : segs[i] = Invalid THEN None ELSE Some(segs)

\* OsStr::to_str on a whole argument: the text of a bare word, and a value
\* that differs from every bare word for an argument with directories
arg_to_str(a) ==
    IF (\E i \in 1..Len(a.name) : a.name[i] = Invalid)
       \/ (\E i \in 1..Len(a.dirs) : a.dirs[i] = Invalid)
    THEN None
    ELSE IF a.dirs = <<>> THEN Some(a.name) ELSE Some(<<a.dirs, a.name>>)

\* Path::file_name: None when the path ends in ".."
file_name(p) == IF p.name = DotDot THEN None ELSE Some(p.name)

\* Path::file_stem: the file name up to its last '.', the whole name when
\* there is no '.' or when the only '.' is the leading one
file_stem(p) ==
    IF file_name(p) = None THEN None
    ELSE LET n == p.name
             k == Len(n)
         IN  IF k = 1 THEN Some(n)
             ELSE IF k = 2 /\ n[1] = "" THEN Some(n)
             ELSE Some(SubSeq(n, 1, k - 1))

\* Option::and_then(|f| f.to_str())
and_then_to_str(o) == IF o = None THEN None ELSE to_str(o[2])

\* the alias as a &str
Want(w) == Some(<<w>>)

Aliases == {"cargo-flash", "cargo-embed"}

multicall_check_firstarg(args, want) ==
    IF Len(args) >= 2 /\ arg_to_str(args[2]) = Want(want)
    THEN Some(Tail(args))
    ELSE IF and_then_to_str(file_stem(args[1])) = Want(want)
    THEN Some(args)
    ELSE None

multicall_check_strip(args, want) ==
    IF and_then_to_str(file_stem(args[1])) = Want(want)
    THEN Some(args)
    ELSE IF Len(args) >= 2 /\ arg_to_str(args[2]) = Want(want)
    THEN Some(<<args[1]>> \o SubSeq(args, 3, Len(args)))
    ELSE None

\* fn multicall_check(args: &[OsString], want: &str) -> Option<Vec<OsString>>
\* (Rust's args[0], args[1] are args[1], args[2] here)
multicall_check(args, want) ==
    IF and_then_to_str(file_stem(args[1])) = Want(want)
    THEN Some(args)
    ELSE IF Len(args) >= 2 /\ arg_to_str(args[2]) = Want(want)
    THEN Some(Tail(args))
    ELSE None

Word(w) == Tok(<<>>, <<w>>)

\* the arguments the model draws from
Tokens ==
    { Word("probe-rs"),
      Word("cargo-flash"),
      Word("cargo-embed"),
      Word("list"),
      Tok(<<"/", "usr", "bin">>, <<"cargo-flash">>),
      Tok(<<>>, <<"cargo-embed", "exe">>),
      Tok(<<>>, <<"cargo-flash", "tar", "gz">>),
      Tok(<<>>, <<"", "cargo-flash">>),
      Tok(<<>>, <<"cargo-flash", Invalid>>),
      Tok(<<>>, <<Invalid>>),
      Tok(<<".">>, DotDot) }

SeqsUpTo(S, n) == UNION { [1..k -> S] : k \in 1..n }

ArgVectors == SeqsUpTo(Tokens, MaxArgs)

\* the argument vectors the process is started with
MainArgs ==
    { <<Word("probe-rs")>>,
      <<Word("probe-rs"), Word("list")>>,
      <<Tok(<<>>, <<"cargo-flash", "tar", "gz">>), Word("list")>>,
      <<Word("probe-rs"), Word("cargo-flash"), Word("list")>>,
      <<Word("probe-rs"), Word("cargo-embed")>>,
      <<Tok(<<"/", "usr", "bin">>, <<"cargo-flash">>), Word("list")>>,
      <<Tok(<<>>, <<"cargo-embed", "exe">>), Word("cargo-flash")>>,
      <<Tok(<<>>, <<"cargo-embed", "exe">>), Word("list")>> }

(***************************************************************************)
(* The log directory.  A file is [name, ext, created]; created is NoTime   *)
(* when fs::metadata or Metadata::created fails for it.                    *)
(***************************************************************************)
NoTime == -1

LogFile(n, c) == [name |-> n, ext |-> "log", created |-> c]

\* path.extension() == Some(OsStr::new("log"))
has_log_extension(f) == f.ext = "log"

\* the (path, created) pairs collected by the filter_map of prune_logs
log_entries(d) == { f \in d : has_log_extension(f) /\ f.created # NoTime }

Layouts == {"asc", "desc", "mixed", "tie"}

\* creation time of the i-th of n files under a layout; "tie" gives the files
\* ranked MAX_LOG_FILES and MAX_LOG_FILES + 1 the same creation time
CreatedAt(layout, i, n) ==
    CASE layout = "asc" -> i
      [] layout = "desc" -> n + 1 - i
      [] layout = "mixed" -> (i * 7) % 29
      [] layout = "tie" -> IF i = n - MAX_LOG_FILES THEN i + 1 ELSE i

OldNote == [name |-> 0, ext |-> "txt", created |-> 0]

InitialDir(n, layout, u, extra) ==
    { LogFile(i, IF i <= u THEN NoTime ELSE CreatedAt(layout, i, n)) : i \in 1..n }
      \cup (IF extra THEN {OldNote} ELSE {})

InitialDirs ==
    { InitialDir(n, layout, u, extra) :
        n \in 0..MaxFiles, layout \in Layouts, u \in 0..MaxUnreadable,
        extra \in BOOLEAN }

\* the clock starts after every creation time of the initial directory
Clock0 == MaxFiles + 8

Range(s) == { s[i] : i \in 1..Len(s) }

\* oldest first: the key without Reverse
RECURSIVE sort_by_created(_)
sort_by_created(S) ==
    IF S = {} THEN { <<>> }
    ELSE UNION { { <<m>> \o s : s \in sort_by_created(S \ {m}) } :
                 m \in { x \in S : \A y \in S : x.created <= y.created } }

\* the orders sort_unstable_by_key(|(_, b)| Reverse(*b)) can leave: most
\* recently created first, entries of equal creation time in any order
RECURSIVE sort_by_reverse_created(_)
sort_by_reverse_created(S) ==
    IF S = {} THEN { <<>> }
    ELSE UNION { { <<m>> \o s : s \in sort_by_reverse_created(S \ {m}) } :
                 m \in { x \in S : \A y \in S : y.created <= x.created } }

skip_one_more(s) == SubSeq(s, MAX_LOG_FILES + 2, Len(s))

\* log_files.iter().skip(MAX_LOG_FILES)
skip_max_log_files(s) == SubSeq(s, MAX_LOG_FILES + 1, Len(s))

\* The outcomes of prune_logs(directory) on the directory content d: read_dir
\* fails, or the candidates are removed in order until a remove_file fails
\* (k is the position of the failing removal, 0 when none fails).
prune_logs(d) ==
    { [res |-> "Err", dir |-> d, candidates |-> {}, attempted |-> {},
       listed |-> FALSE] }
    \cup
    UNION { LET cand == skip_max_log_files(s)
           IN  { [res |-> IF k = 0 THEN "Ok" ELSE "Err",
                  dir |-> d \ { cand[i] : i \in
                                  1..(IF k = 0 THEN Len(cand) ELSE k - 1) },
                  candidates |-> Range(cand),
                  attempted |-> { cand[i] : i \in
                                  1..(IF k = 0 THEN Len(cand) ELSE k) },
                  listed |-> TRUE] : k \in 0..Len(cand) }
          : s \in sort_by_reverse_created(log_entries(d)) }

(***************************************************************************)
(* main                                                                    *)
(***************************************************************************)
Subcommands == {"DapServer", "List", "Run"}

\* a path is <<directory, file name>>
ExplicitPath == <<"cwd", "probe.log">>

DataDir == "data_dir"

\* Path::parent
parent(path) == path[1]

\* matches before Cli::parse_from has run
Unparsed == [log_file |-> None, log_to_folder |-> FALSE, subcommand |-> "unparsed"]

\* a Result not yet produced
Unset == "unset"

CliValues ==
    [log_file : {None, Some(ExplicitPath)}, log_to_folder : BOOLEAN,
     subcommand : Subcommands]

VARIABLES
    args,          \* std::env::args_os()
    pc,            \* position in main
    trace,         \* the calls and records of this run, in order
    cli,           \* matches
    log_path,      \* log_path
    location,      \* the path default_logfile_location returned
    guard,         \* _append_guard: "none", "held", "dropped"
    result,        \* the value the subcommand handler returned
    returned,      \* what main returned to the process
    handler_args,  \* the arguments handed to an alias handler
    dir,           \* content of the default log directory
    dir0,          \* the same when this run started
    pruned,        \* the outcome of prune_logs in this run
    now,           \* wall clock, milliseconds
    run,           \* number of earlier runs
    mc_args, mc_want, mc_result, mc_pc,
    fo, target1, target2, out1, out2, fmt_pc

procVars == <<args, pc, trace, cli, log_path, location, guard, result,
              returned, handler_args, dir, dir0, pruned, now, run>>

mcVars == <<mc_args, mc_want, mc_result, mc_pc>>

fmtVars == <<fo, target1, target2, out1, out2, fmt_pc>>

vars == <<procVars, mcVars, fmtVars>>

\* a return from main: the guard, when held, is dropped as main's locals go
\* out of scope, then the process exits
Return(res, events) ==
    /\ pc' = "done"
    /\ returned' = res
    /\ guard' = IF guard = "held" THEN "dropped" ELSE guard
    /\ trace' = trace \o events
                  \o (IF guard = "held" THEN <<"drop guard">> ELSE <<>>)
                  \o <<"exit">>

\* a step of main other than a return
Goto(next, events) ==
    /\ pc' = next
    /\ trace' = trace \o events
    /\ UNCHANGED returned

HandlerResults == {"Ok", "Err(subcommand)"}

\* CheckCargoFlash without its return
CheckCargoFlash_no_return ==
    /\ pc = "start"
    /\ LET r == multicall_check(args, "cargo-flash")
       IN  IF r # None
           THEN /\ handler_args' = r
                /\ Goto("check_embed", <<"multicall_check cargo-flash",
                                         "cargo_flash::main">>)
                /\ UNCHANGED guard
           ELSE /\ Goto("check_embed", <<"multicall_check cargo-flash">>)
                /\ UNCHANGED <<handler_args, guard>>
    /\ UNCHANGED <<args, cli, log_path, location, dir, dir0, pruned, now, run>>
    /\ UNCHANGED <<result, mcVars, fmtVars>>

\* lines 253-256
CheckCargoFlash ==
    /\ pc = "start"
    /\ LET r == multicall_check(args, "cargo-flash")
       IN  IF r # None
           THEN /\ handler_args' = r
                /\ Return("Ok", <<"multicall_check cargo-flash",
                                  "cargo_flash::main">>)
           ELSE /\ Goto("check_embed", <<"multicall_check cargo-flash">>)
                /\ UNCHANGED <<handler_args, guard>>
    /\ UNCHANGED <<args, cli, log_path, location, dir, dir0, pruned, now, run>>
    /\ UNCHANGED <<result, mcVars, fmtVars>>

\* lines 257-260
CheckCargoEmbed ==
    /\ pc = "check_embed"
    /\ LET r == multicall_check(args, "cargo-embed")
       IN  IF r # None
           THEN /\ handler_args' = r
                /\ Return("Ok", <<"multicall_check cargo-embed",
                                  "cargo_embed::main">>)
           ELSE /\ Goto("utc_offset", <<"multicall_check cargo-embed">>)
                /\ UNCHANGED <<handler_args, guard>>
    /\ UNCHANGED <<args, cli, log_path, location, dir, dir0, pruned, now, run>>
    /\ UNCHANGED <<result, mcVars, fmtVars>>

\* CaptureUtcOffset with the failure ignored
CaptureUtcOffset_unchecked ==
    /\ pc = "utc_offset"
    /\ \/ Goto("parse", <<"current_local_offset">>)
       \/ Goto("parse", <<"current_local_offset", "indeterminate offset">>)
    /\ UNCHANGED <<args, cli, log_path, location, guard, handler_args, dir,
                   dir0, pruned, now, run>>
    /\ UNCHANGED <<result, mcVars, fmtVars>>

\* lines 262-263: UtcOffset::current_local_offset() succeeds or is
\* indeterminate
CaptureUtcOffset ==
    /\ pc = "utc_offset"
    /\ \/ /\ Goto("parse", <<"current_local_offset">>)
          /\ UNCHANGED guard
       \/ Return("Err(local time)",
                 <<"current_local_offset", "indeterminate offset">>)
    /\ UNCHANGED <<args, cli, log_path, location, handler_args, dir, dir0,
                   pruned, now, run>>
    /\ UNCHANGED <<result, mcVars, fmtVars>>

\* line 266: Cli::parse_from(args) yields a Cli value, or prints usage or
\* help and exits the process
ParseCli ==
    /\ pc = "parse"
    /\ \/ /\ \E m \in CliValues : cli' = m
          /\ Goto("lister", <<"Cli::parse_from">>)
          /\ UNCHANGED guard
       \/ /\ Return("exit(clap)", <<"Cli::parse_from">>)
          /\ UNCHANGED cli
    /\ UNCHANGED <<args, log_path, location, handler_args, dir, dir0, pruned,
                   now, run>>
    /\ UNCHANGED <<result, mcVars, fmtVars>>

\* line 269
NewLister ==
    /\ pc = "lister"
    /\ Goto("dap", <<"Lister::new">>)
    /\ UNCHANGED <<args, cli, log_path, location, guard, handler_args, dir,
                   dir0, pruned, now, run>>
    /\ UNCHANGED <<result, mcVars, fmtVars>>

is_dap_server_never(sub) == FALSE

\* line 273: if let Subcommand::DapServer(cmd) = matches.subcommand
is_dap_server(sub) == sub = "DapServer"

\* lines 273-275
RunDapServer ==
    /\ pc = "dap"
    /\ is_dap_server(cli.subcommand)
    /\ \E r \in HandlerResults :
         /\ result' = r
         /\ Return(r, <<"dap_server::run">>)
    /\ UNCHANGED <<args, cli, log_path, location, handler_args, dir, dir0,
                   pruned, now, run>>
    /\ UNCHANGED <<mcVars, fmtVars>>

\* lines 277-278
ExplicitLogFile ==
    /\ pc = "dap"
    /\ ~is_dap_server(cli.subcommand)
    /\ cli.log_file # None
    /\ log_path' = cli.log_file
    /\ Goto("sinks", <<>>)
    /\ UNCHANGED <<args, cli, location, guard, handler_args, dir, dir0, pruned,
                   now, run>>
    /\ UNCHANGED <<result, mcVars, fmtVars>>

\* lines 288-290
NoLogFile ==
    /\ pc = "dap"
    /\ ~is_dap_server(cli.subcommand)
    /\ cli.log_file = None
    /\ ~cli.log_to_folder
    /\ log_path' = None
    /\ Goto("sinks", <<>>)
    /\ UNCHANGED <<args, cli, location, guard, handler_args, dir, dir0, pruned,
                   now, run>>
    /\ UNCHANGED <<result, mcVars, fmtVars>>

\* the calls default_logfile_location makes, last one failing unless "Ok"
default_logfile_location_calls(outcome) ==
    CASE outcome = "no data dir" -> <<"ProjectDirs::from">>
      [] outcome = "now_local" ->
            <<"ProjectDirs::from", "now_local", "indeterminate offset">>
      [] outcome = "create_dir_all" ->
            <<"ProjectDirs::from", "now_local", "create_dir_all">>
      [] outcome = "Ok" -> <<"ProjectDirs::from", "now_local", "create_dir_all">>

\* lines 279-281 with 181-200: the file name is the clock in milliseconds
DefaultLogfileLocation ==
    /\ pc = "dap"
    /\ ~is_dap_server(cli.subcommand)
    /\ cli.log_file = None
    /\ cli.log_to_folder
    /\ \E outcome \in {"no data dir", "now_local", "create_dir_all", "Ok"} :
         LET calls == <<"default_logfile_location">>
                        \o default_logfile_location_calls(outcome)
         IN  IF outcome = "Ok"
             THEN /\ location' = Some(<<DataDir, now>>)
                  /\ Goto("prune", calls)
                  /\ UNCHANGED guard
             ELSE /\ Return("Err(default log file location)", calls)
                  /\ UNCHANGED location
    /\ UNCHANGED <<args, cli, log_path, handler_args, dir, dir0, pruned, now,
                   run>>
    /\ UNCHANGED <<result, mcVars, fmtVars>>

\* lines 282-287 with 203-231
PruneLogs ==
    /\ pc = "prune"
    /\ \E o \in prune_logs(dir) :
         /\ pruned' = Some(o)
         /\ dir' = o.dir
         /\ IF o.res = "Ok"
            THEN /\ log_path' = location
                 /\ Goto("sinks", <<"prune_logs">>)
                 /\ UNCHANGED guard
            ELSE /\ Return("Err(prune_logs)", <<"prune_logs">>)
                 /\ UNCHANGED log_path
    /\ UNCHANGED <<args, cli, location, handler_args, dir0, now, run>>
    /\ UNCHANGED <<result, mcVars, fmtVars>>

append_guard_unbound == "dropped"

\* line 302: let _append_guard = ... Some(guard)
append_guard == "held"

\* lines 292-329: File::create(log_path)? and the installation of the sinks
InstallSinks ==
    /\ pc = "sinks"
    /\ IF log_path # None
       THEN \/ /\ Return("Err(File::create)", <<"File::create">>)
               /\ UNCHANGED dir
            \/ /\ dir' = IF parent(log_path[2]) # DataDir THEN dir
                          ELSE dir \cup {LogFile(log_path[2][2], now)}
               /\ guard' = append_guard
               /\ Goto("writing", <<"File::create", "guard",
                                    "init stderr+file">>)
       ELSE /\ Goto("writing", <<"init stderr">>)
            /\ UNCHANGED <<guard, dir>>
    /\ UNCHANGED <<args, cli, log_path, location, handler_args, dir0, pruned,
                   now, run>>
    /\ UNCHANGED <<result, mcVars, fmtVars>>

\* lines 331-333
WritingLog ==
    /\ pc = "writing"
    /\ Goto("run", IF log_path # None THEN <<"Writing log">> ELSE <<>>)
    /\ UNCHANGED <<args, cli, log_path, location, guard, handler_args, dir,
                   dir0, pruned, now, run>>
    /\ UNCHANGED <<result, mcVars, fmtVars>>

\* lines 335-354: the handler of the subcommand runs and returns its result;
\* the DapServer arm is unreachable!()
RunSubcommand ==
    /\ pc = "run"
    /\ IF cli.subcommand = "DapServer"
       THEN /\ Return("panic(unreachable)", <<>>)
            /\ UNCHANGED result
       ELSE /\ \E r \in HandlerResults : result' = r
            /\ Goto("wrote", <<"cmd.run">>)
            /\ UNCHANGED guard
    /\ UNCHANGED <<args, cli, log_path, location, handler_args, dir, dir0,
                   pruned, now, run>>
    /\ UNCHANGED <<mcVars, fmtVars>>

\* lines 356-358
WroteLog ==
    /\ pc = "wrote"
    /\ Goto("return", IF log_path # None THEN <<"Wrote log">> ELSE <<>>)
    /\ UNCHANGED <<args, cli, log_path, location, guard, handler_args, dir,
                   dir0, pruned, now, run>>
    /\ UNCHANGED <<result, mcVars, fmtVars>>

\* line 360
ReturnResult ==
    /\ pc = "return"
    /\ Return(result, <<>>)
    /\ UNCHANGED <<args, cli, log_path, location, handler_args, dir, dir0,
                   pruned, now, run>>
    /\ UNCHANGED <<result, mcVars, fmtVars>>

\* the program is started again, later, on the directory the last run left
NewRun ==
    /\ pc = "done"
    /\ run < MaxRuns
    /\ run' = run + 1
    /\ now' = now + 1
    /\ args' \in MainArgs
    /\ pc' = "start"
    /\ trace' = <<>>
    /\ cli' = Unparsed
    /\ log_path' = None
    /\ location' = None
    /\ guard' = "none"
    /\ result' = Unset
    /\ returned' = Unset
    /\ handler_args' = None
    /\ pruned' = None
    /\ dir0' = dir
    /\ UNCHANGED <<dir, mcVars, fmtVars>>

IdleMc ==
    /\ mc_args = <<>> /\ mc_want = "cargo-flash" /\ mc_result = None
    /\ mc_pc = "idle"

IdleFmt ==
    /\ fo = [format |-> None, base_address |-> None, skip |-> 0,
             idf_bootloader |-> None, idf_partition_table |-> None]
    /\ target1 = [default_format |-> "Raw"]
    /\ target2 = [default_format |-> "Raw"]
    /\ out1 = None /\ out2 = None /\ fmt_pc = "idle"

IdleProc ==
    /\ args = <<>> /\ pc = "idle" /\ trace = <<>> /\ cli = Unparsed
    /\ log_path = None /\ location = None /\ guard = "none"
    /\ result = Unset /\ returned = Unset /\ handler_args = None
    /\ dir = {} /\ dir0 = {} /\ pruned = None /\ now = Clock0 /\ run = 0

Init ==
    /\ args \in MainArgs
    /\ pc = "start"
    /\ trace = <<>>
    /\ cli = Unparsed
    /\ log_path = None
    /\ location = None
    /\ guard = "none"
    /\ result = Unset
    /\ returned = Unset
    /\ handler_args = None
    /\ dir \in InitialDirs
    /\ dir0 = dir
    /\ pruned = None
    /\ now = Clock0
    /\ run = 0
    /\ IdleMc
    /\ IdleFmt

Next ==
    \/ CheckCargoFlash
    \/ CheckCargoEmbed
    \/ CaptureUtcOffset
    \/ ParseCli
    \/ NewLister
    \/ RunDapServer
    \/ ExplicitLogFile
    \/ NoLogFile
    \/ DefaultLogfileLocation
    \/ PruneLogs
    \/ InstallSinks
    \/ WritingLog
    \/ RunSubcommand
    \/ WroteLog
    \/ ReturnResult
    \/ NewRun

Spec == Init /\ [][Next]_vars

(***************************************************************************)
(* multicall_check on drawn argument vectors                               *)
(***************************************************************************)
InitMulticall ==
    /\ mc_args \in ArgVectors
    /\ mc_want \in Aliases
    /\ mc_result = None
    /\ mc_pc = "call"
    /\ IdleProc
    /\ IdleFmt

ApplyMulticallCheck ==
    /\ mc_pc = "call"
    /\ mc_result' = multicall_check(mc_args, mc_want)
    /\ mc_pc' = "done"
    /\ UNCHANGED <<mc_args, mc_want, procVars, fmtVars>>

NextMulticall == ApplyMulticallCheck

SpecMulticall == InitMulticall /\ [][NextMulticall]_vars

(***************************************************************************)
(* FormatOptions::into_format                                              *)
(***************************************************************************)
\* Format, with BinOptions::default() and IdfOptions::default()
Bin(base_address, skip) ==
    [family |-> "Bin", base_address |-> base_address, skip |-> skip]

Idf(bootloader, partition_table) ==
    [family |-> "Idf", bootloader |-> bootloader,
     partition_table |-> partition_table]

Hex == [family |-> "Hex"]

Elf == [family |-> "Elf"]

Uf2 == [family |-> "Uf2"]

\* the values a parsed or deserialized --format carries
ExplicitFormats == { Bin(None, 0), Hex, Elf, Idf(None, None), Uf2 }

\* Format::default(): "we default to ELF"
FormatDefault == Elf

\* probe_rs_target::BinaryFormat
BinaryFormats == {"Idf", "Raw"}

\* the files a bootloader or partition table path can name
FormatPaths == {"bootloader.bin", "partitions.csv", "missing.bin"}

Ok(v) == <<"Ok", v>>

Err(kind, path) == <<"Err", kind, path>>

\* std::fs::read
fs_read(path) ==
    IF path = "missing.bin" THEN Err("io", path) ELSE Ok(<<"bytes", path>>)

\* esp_idf_part::PartitionTable::try_from
partition_table_try_from(bytes) ==
    IF bytes[2] = "partitions.csv" THEN Ok(<<"table", bytes[2]>>)
    ELSE Err("parse", bytes[2])

FormatOptionsValues ==
    [format : {None} \cup { Some(f) : f \in ExplicitFormats },
     base_address : {None, Some(0), Some(134217728)},
     skip : {0, 16},
     idf_bootloader : {None} \cup { Some(q) : q \in FormatPaths },
     idf_partition_table : {None} \cup { Some(q) : q \in FormatPaths }]

Targets == [default_format : BinaryFormats]

\* lines 145-173: the parameters of the chosen family
into_format_params(self, format) ==
    CASE format.family = "Bin" -> Ok(Bin(self.base_address, self.skip))
      [] format.family = "Hex" -> Ok(Hex)
      [] format.family = "Elf" -> Ok(Elf)
      [] format.family = "Uf2" -> Ok(Uf2)
      [] format.family = "Idf" ->
           LET b == IF self.idf_bootloader = None THEN Ok(None)
                    ELSE fs_read(self.idf_bootloader[2])
               r == IF self.idf_partition_table = None THEN Ok(None)
                    ELSE fs_read(self.idf_partition_table[2])
               t == IF r[1] = "Ok" /\ r[2] # None
                    THEN partition_table_try_from(r[2]) ELSE r
           IN  IF b[1] = "Err" THEN b
               ELSE IF r[1] = "Err" THEN r
               ELSE IF t[1] = "Err" THEN t
               ELSE Ok(Idf(IF b[2] = None THEN None ELSE Some(b[2]),
                           IF t[2] = None THEN None ELSE Some(t[2])))

\* the target's preference taken before the explicit format
into_format_target_first(self, target) ==
    into_format_params(self,
        IF target.default_format = "Idf" THEN Idf(None, None)
        ELSE IF self.format # None THEN self.format[2]
        ELSE FormatDefault)

\* pub fn into_format(self, target: &Target) -> anyhow::Result<Format>
into_format(self, target) ==
    into_format_params(self,
        IF self.format # None THEN self.format[2]
        ELSE IF target.default_format = "Idf" THEN Idf(None, None)
        ELSE FormatDefault)

InitFormat ==
    /\ fo \in FormatOptionsValues
    /\ target1 \in Targets
    /\ target2 \in Targets
    /\ out1 = None
    /\ out2 = None
    /\ fmt_pc = "call"
    /\ IdleProc
    /\ IdleMc

\* the same options resolved against two targets
ApplyIntoFormat ==
    /\ fmt_pc = "call"
    /\ out1' = into_format(fo, target1)
    /\ out2' = into_format(fo, target2)
    /\ fmt_pc' = "done"
    /\ UNCHANGED <<fo, target1, target2, procVars, mcVars>>

NextFormat == ApplyIntoFormat

SpecFormat == InitFormat /\ [][NextFormat]_vars

(***************************************************************************)
(* Properties                                                              *)
(***************************************************************************)
Has(e) == \E i \in 1..Len(trace) : trace[i] = e

Count(e) == Cardinality({ i \in 1..Len(trace) : trace[i] = e })

\* every occurrence of a comes before every occurrence of b
Precedes(a, b) ==
    \A i, j \in 1..Len(trace) : trace[i] = a /\ trace[j] = b => i < j

LogsOf(d) == { f \in d : f.ext = "log" }

OthersOf(d) == { f \in d : f.ext # "log" }

Min(a, b) == IF a < b THEN a ELSE b

ReadableDistinct(d) ==
    /\ \A f \in LogsOf(d) : f.created # NoTime
    /\ \A f, g \in LogsOf(d) : f # g => f.created # g.created

\* the .log files of d with fewer than 20 more recently created ones
Newest20(d) ==
    { f \in LogsOf(d) :
        Cardinality({ g \in LogsOf(d) : g.created > f.created }) < 20 }

\* prune_logs has just returned Ok in this run
JustPruned == pc = "sinks" /\ pruned # None

\* C1: when the .log files of the directory have readable, distinct creation
\* times and prune_logs returns Ok, exactly the min(n, 20) most recently
\* created .log files are left and the files without the .log extension are
\* all still there.
C1_PruneKeepsNewest ==
    (JustPruned /\ ReadableDistinct(dir0)) =>
        /\ LogsOf(dir) = Newest20(dir0)
        /\ Cardinality(LogsOf(dir)) = Min(Cardinality(LogsOf(dir0)), 20)
        /\ OthersOf(dir) = OthersOf(dir0)

C1_Witness ==
    /\ JustPruned
    /\ ReadableDistinct(dir0)
    /\ Cardinality(LogsOf(dir0)) = 25
    /\ Cardinality(LogsOf(dir)) = 20
    /\ OldNote \in dir
    /\ \E f \in LogsOf(dir0) \ dir : \E g \in LogsOf(dir) : f.name > g.name

\* C2: a failing removal does not end the rotation or the run: once
\* prune_logs has listed the directory, remove_file has been attempted on
\* every .log file ranked beyond the 20 most recent, and main does not return
\* the rotation's error.
C2_DeletionFailureNonFatal ==
    (pruned # None /\ pruned[2].listed) =>
        /\ pruned[2].attempted = pruned[2].candidates
        /\ returned # "Err(prune_logs)"

\* the executable's file stem is (not) the alias, its first argument is
StemIs(a, w) == and_then_to_str(file_stem(a[1])) = Want(w)

FirstArgIs(a, w) == Len(a) >= 2 /\ a[2] = Word(w)

\* C3 as stated: the stem is not the alias, the first argument is: the
\* result is the vector without the first argument.
C3_AliasTokenStripped ==
    (mc_pc = "done" /\ ~StemIs(mc_args, mc_want) /\ FirstArgIs(mc_args, mc_want))
        => mc_result = Some(<<mc_args[1]>> \o SubSeq(mc_args, 3, Len(mc_args)))

\* C3: the stem is not the alias, the first argument is: the result is the
\* vector without the program name, the alias first, the rest in order.
C3_ProgramNameDropped ==
    (mc_pc = "done" /\ ~StemIs(mc_args, mc_want) /\ FirstArgIs(mc_args, mc_want))
        => /\ mc_result # None
           /\ Len(mc_result[2]) = Len(mc_args) - 1
           /\ mc_result[2][1] = Word(mc_want)
           /\ \A i \in 1..Len(mc_result[2]) : mc_result[2][i] = mc_args[i + 1]

C3_Witness ==
    /\ mc_pc = "done"
    /\ mc_want = "cargo-embed"
    /\ mc_args = <<Word("probe-rs"), Word("cargo-embed"), Word("list")>>
    /\ mc_result = Some(<<Word("cargo-embed"), Word("list")>>)

\* C10: the stem is the alias: the result is the whole argument vector,
\* whatever the other arguments are.
C10_StemReturnsWholeVector ==
    (mc_pc = "done" /\ StemIs(mc_args, mc_want)) => mc_result = Some(mc_args)

C10_Witness ==
    /\ mc_pc = "done"
    /\ mc_want = "cargo-embed"
    /\ mc_args = <<Tok(<<>>, <<"cargo-embed", "exe">>), Word("cargo-embed"),
                   Word("cargo-flash")>>
    /\ Len(mc_result[2]) = 3

\* C5: with an explicit format the result is the same for both targets; a
\* returned format has the explicit family, an error arises only from the
\* files of the Idf family, and explicit Bin yields Bin with the base address
\* and skip count of the options.
C5_ExplicitFormatWins ==
    (fmt_pc = "done" /\ fo.format # None) =>
        /\ out1 = out2
        /\ out1[1] = "Ok" => out1[2].family = fo.format[2].family
        /\ out1[1] = "Err" => fo.format[2].family = "Idf"
        /\ fo.format[2].family = "Bin" =>
              out1 = Ok([family |-> "Bin", base_address |-> fo.base_address,
                         skip |-> fo.skip])

C5_Witness ==
    /\ fmt_pc = "done"
    /\ fo.format = Some(Bin(None, 0))
    /\ fo.base_address = Some(134217728)
    /\ fo.skip = 16
    /\ target1.default_format = "Idf"
    /\ target2.default_format = "Raw"
    /\ out2 = Ok(Bin(Some(134217728), 16))

IsPrefix(s, t) == Len(s) <= Len(t) /\ \A i \in 1..Len(s) : s[i] = t[i]

\* the alias is the executable's stem or the first argument
Matches(a, w) == StemIs(a, w) \/ FirstArgIs(a, w)

\* what follows the alias checks: offset capture, parsing, logging, dispatch
PrimaryEvents ==
    { "current_local_offset", "indeterminate offset", "Cli::parse_from",
      "Lister::new", "dap_server::run", "default_logfile_location",
      "ProjectDirs::from", "now_local", "create_dir_all", "prune_logs",
      "File::create", "guard", "init stderr+file", "init stderr",
      "Writing log", "cmd.run", "Wrote log", "drop guard" }

FlashRun == <<"multicall_check cargo-flash", "cargo_flash::main", "exit">>

EmbedRun ==
    <<"multicall_check cargo-flash", "multicall_check cargo-embed",
      "cargo_embed::main", "exit">>

\* C4: cargo-flash is checked first, cargo-embed second; a run in which an
\* alias matches consists of the checks up to that alias and its handler,
\* hands the handler what multicall_check returned and returns Ok; a run in
\* which neither matches goes on to the offset capture.
C4_AliasShortCircuits ==
    /\ Matches(args, "cargo-flash") =>
          /\ IsPrefix(trace, FlashRun)
          /\ pc = "done" =>
                /\ trace = FlashRun
                /\ returned = "Ok"
                /\ handler_args = multicall_check(args, "cargo-flash")
    /\ (~Matches(args, "cargo-flash") /\ Matches(args, "cargo-embed")) =>
          /\ IsPrefix(trace, EmbedRun)
          /\ pc = "done" =>
                /\ trace = EmbedRun
                /\ returned = "Ok"
                /\ handler_args = multicall_check(args, "cargo-embed")
    /\ (~Matches(args, "cargo-flash") /\ ~Matches(args, "cargo-embed")) =>
          /\ ~Has("cargo_flash::main") /\ ~Has("cargo_embed::main")
          /\ handler_args = None
          /\ pc = "done" =>
                IsPrefix(<<"multicall_check cargo-flash",
                           "multicall_check cargo-embed",
                           "current_local_offset">>, trace)

C4_Witness ==
    /\ pc = "done"
    /\ args = <<Tok(<<>>, <<"cargo-embed", "exe">>), Word("cargo-flash")>>
    /\ Has("cargo_flash::main")
    /\ handler_args = Some(<<Word("cargo-flash")>>)
    /\ \A i \in 1..Len(trace) : trace[i] \notin PrimaryEvents

\* log-location resolution, rotation, log-file creation, sink installation
LogSetupEvents ==
    { "default_logfile_location", "ProjectDirs::from", "now_local",
      "create_dir_all", "prune_logs", "File::create", "guard",
      "init stderr+file", "init stderr", "Writing log", "Wrote log",
      "drop guard" }

SinksInstalled == Has("init stderr") \/ Has("init stderr+file")

\* C6: when the parsed subcommand is DapServer no log setup step occurs, no
\* guard is acquired, the directory is as the run found it, and a finished
\* run has called the DAP handler and returns its result; the handler of any
\* other subcommand is called only after the sinks are installed.
C6_DapServerBeforeLogging ==
    /\ cli.subcommand = "DapServer" =>
          /\ \A i \in 1..Len(trace) : trace[i] \notin LogSetupEvents
          /\ ~Has("cmd.run")
          /\ guard = "none" /\ log_path = None /\ dir = dir0
          /\ pc = "done" =>
                /\ Has("dap_server::run")
                /\ result \in HandlerResults
                /\ returned = result
    /\ Has("dap_server::run") => cli.subcommand = "DapServer"
    /\ Has("cmd.run") =>
          /\ cli.subcommand \notin {"DapServer", "unparsed"}
          /\ SinksInstalled
          /\ Precedes("init stderr", "cmd.run")
          /\ Precedes("init stderr+file", "cmd.run")

C6_Witness ==
    /\ pc = "done"
    /\ cli.subcommand = "DapServer"
    /\ cli.log_to_folder
    /\ cli.log_file # None
    /\ Has("dap_server::run")
    /\ returned = "Err(subcommand)"

\* the calls that resolve the machine's local UTC offset
OffsetResolutions == {"current_local_offset", "now_local"}

\* parsing, the lister, filesystem and logging setup, the handlers
AfterOffsetEvents ==
    (PrimaryEvents \ {"current_local_offset", "indeterminate offset"})

NoAliasMatched == ~Has("cargo_flash::main") /\ ~Has("cargo_embed::main")

\* the run is past the alias checks
PastAliasChecks ==
    NoAliasMatched /\ pc \notin {"start", "check_embed", "utc_offset"}

\* C7 as stated: in a run of the primary CLI the local offset is resolved
\* once, before parsing, the lister and every setup step, and an
\* indeterminate offset ends the run before any log setup or handler.
C7_OffsetResolvedOnce ==
    PastAliasChecks =>
        /\ Cardinality({ i \in 1..Len(trace) : trace[i] \in OffsetResolutions }) = 1
        /\ \A i, j \in 1..Len(trace) :
              (trace[i] \in OffsetResolutions /\ trace[j] \in AfterOffsetEvents
               /\ trace[j] \notin OffsetResolutions) => i < j
        /\ Has("indeterminate offset") =>
              \A i \in 1..Len(trace) :
                  trace[i] \notin LogSetupEvents \cup {"cmd.run", "dap_server::run"}

\* C7: main calls current_local_offset once, before parsing, the lister and
\* every setup step; default_logfile_location resolves the offset a second
\* time (now_local), only in a non-DAP run with log_to_folder and no
\* log_file, after the lister and before create_dir_all, rotation, file
\* creation and the sinks; an indeterminate offset at either place ends the
\* run with an error, with nothing but the exit after it and no handler run.
C7_OffsetCaptureFirst ==
    /\ PastAliasChecks =>
          /\ Count("current_local_offset") = 1
          /\ \A i, j \in 1..Len(trace) :
                (trace[i] = "current_local_offset"
                 /\ trace[j] \in AfterOffsetEvents) => i < j
    /\ Count("now_local") <= 1
    /\ Has("now_local") =>
          /\ cli.log_to_folder /\ cli.log_file = None
          /\ cli.subcommand \notin {"DapServer", "unparsed"}
          /\ Precedes("Cli::parse_from", "now_local")
          /\ Precedes("Lister::new", "now_local")
          /\ \A i, j \in 1..Len(trace) :
                (trace[i] = "now_local"
                 /\ trace[j] \in {"create_dir_all", "prune_logs", "File::create",
                                  "guard", "init stderr+file", "init stderr",
                                  "cmd.run"}) => i < j
    /\ Has("indeterminate offset") =>
          /\ pc = "done"
          /\ returned \in {"Err(local time)", "Err(default log file location)"}
          /\ trace[Len(trace)] = "exit"
          /\ trace[Len(trace) - 1] = "indeterminate offset"
          /\ trace[Len(trace) - 2] \in OffsetResolutions
          /\ ~Has("cmd.run") /\ ~Has("dap_server::run") /\ ~SinksInstalled
          /\ ~Has("create_dir_all") /\ ~Has("prune_logs") /\ ~Has("File::create")
          /\ dir = dir0

C7_Witness ==
    /\ pc = "done"
    /\ Has("current_local_offset")
    /\ Has("now_local")
    /\ Has("indeterminate offset")
    /\ returned = "Err(default log file location)"

\* C8: a guard exists exactly when a file sink was installed; it is held
\* from then until it is dropped; it is dropped once, after the handler has
\* returned and "Wrote log" was emitted, as the last thing before the exit;
\* a finished run that acquired it has dropped it and returns the handler's
\* result, Ok or Err.
C8_GuardHeldUntilExit ==
    /\ Has("guard") <=> Has("init stderr+file")
    /\ Has("guard") => log_path # None
    /\ guard = "none" <=> ~Has("guard")
    /\ (Has("guard") /\ ~Has("drop guard")) => guard = "held"
    /\ Has("drop guard") =>
          /\ guard = "dropped"
          /\ Count("drop guard") = 1
          /\ Precedes("guard", "drop guard")
          /\ Has("cmd.run") /\ Precedes("cmd.run", "drop guard")
          /\ Has("Wrote log") /\ Precedes("Wrote log", "drop guard")
          /\ Precedes("cmd.run", "Wrote log")
          /\ trace[Len(trace)] = "exit"
          /\ trace[Len(trace) - 1] = "drop guard"
    /\ (pc = "done" /\ Has("guard")) =>
          /\ Has("drop guard")
          /\ result \in HandlerResults
          /\ returned = result
    /\ (Has("init stderr") \/ Has("dap_server::run") \/ ~NoAliasMatched) =>
          guard = "none"

C8_Witness ==
    /\ pc = "done"
    /\ Has("guard")
    /\ Has("drop guard")
    /\ returned = "Err(subcommand)"

\* a run with --log-to-folder and no explicit --log-file
FolderRun == cli.log_to_folder /\ cli.log_file = None

\* this run created its own log file in the default directory
OwnFileCreated == FolderRun /\ Has("guard")

OwnFileExists ==
    /\ location # None
    /\ \E f \in LogsOf(dir) : f.name = location[2][2]

\* the .log files that were there when the run started and still are
Survivors == LogsOf(dir0) \cap dir

\* C9 as stated: every finished run with log_to_folder and no log_file
\* leaves at most 20 of the .log files it found and its own log file.
C9_EveryFolderRunRotates ==
    (pc = "done" /\ FolderRun) =>
        /\ Cardinality(Survivors) <= 20
        /\ OwnFileExists

\* C9: in a run with log_to_folder and no log_file, File::create is called
\* only after prune_logs returned Ok; the file it creates was not in the
\* directory before and is none of the rotation's candidates; from its
\* creation to the end of the run the file exists and at most 20 of the .log
\* files with a readable creation time that the run found are still there.
C9_RotationBeforeOwnFile ==
    /\ (FolderRun /\ Has("File::create")) =>
          /\ Has("prune_logs") /\ Precedes("prune_logs", "File::create")
          /\ pruned # None /\ pruned[2].res = "Ok"
          /\ \A c \in pruned[2].candidates \cup dir0 :
                ~(c.ext = "log" /\ c.name = location[2][2])
          /\ pruned[2].attempted = pruned[2].candidates
    /\ OwnFileCreated =>
          /\ OwnFileExists
          /\ Cardinality(log_entries(dir0) \cap dir) <= 20

C9_Witness ==
    /\ pc = "done"
    /\ run = 1
    /\ OwnFileCreated
    /\ OwnFileExists
    /\ pruned[2].candidates # {}
    /\ Cardinality(log_entries(dir0) \cap dir) = 20
    /\ \E f \in Survivors : f.created >= Clock0

====
